---- MODULE Spec2Model ----
(***************************************************************************)
(* Model of the Ariba contract-extraction robot                            *)
(* (bot_contracts_PRD_instance_1): the resume tracker and batch planner of *)
(* core/contracts.py, the per-contract state machine process_contract, the *)
(* download step of core/documents.py and the batch loop of main.py.       *)
(* The browser page is the environment: every gateway call draws its       *)
(* result from the set of results its code can return.                     *)
(***************************************************************************)
EXTENDS Integers, Sequences, FiniteSets, TLC

\* ---------------------------------------------------------------- bounds
Ids == {"A", "B", "C"}
MaxLen == 2
MaxRuns == 2
MaxQty == 2

\* Python's None, True and False as recorded results
None == "None"
PyBool(b) == IF b THEN "True" ELSE "False"

\* ------------------------------------------------------- program constants
\* main.py:70  get_quantity_to_process(default: int = 35000)
DefaultQuantity == 35000

VARIABLES
    full_ids,        \* contracts.py:50  contract_ids read from the sheet
    input_file,      \* contracts.py:42-48  "ok" | "missing" | "no_column"
    root,            \* EXTRACTED_CONTRACTS_DIR: "exists" | "missing" | "unreadable"
    open_event,      \* what the portal shows to a call of open_contract on its own
    summary,         \* main.py:136-138  the counts of generate_summary
    listener,        \* main.py:41-50  "not_started" | "started"
    folders,         \* sub-directories of EXTRACTED_CONTRACTS_DIR
    clock,           \* source of modification times
    max_runs,        \* how many runs of main() this behaviour may start
    run,             \* number of runs of main() started so far
    pc,              \* position of main()
    quantity,        \* main.py:168
    last_id,         \* main.py:172
    contract_ids,    \* main.py:175  the plan of this run
    i,               \* main.py:194  1-based loop index
    report_data,     \* main.py:185  rows appended so far
    should_stop,     \* main.py:38   ProcessController.should_stop
    browser,         \* "none" | "open" | "closed"
    reports,         \* number of report files this run has written
    exit_code,       \* None | 1 (sys.exit(1))
    cpc,             \* position inside process_contract
    status,          \* contracts.py:183
    file_path,       \* contracts.py:184
    calls,           \* gateway calls made for the contract in flight
    search_ok,       \* result of search_contract ("unset" before the call)
    open_status,     \* result of open_contract
    access_ok,       \* result of access_contract_documents
    download_status, \* result of download_contract_documents
    download_event,  \* what happened inside the download step
    nav_ok,          \* result of navigate_to_homepage
    result,          \* the dict process_contract returns
    login_ok,        \* main.py:189  what login returned
    login_calls,     \* number of calls of login in this run
    stopped_at,      \* where main() was when the listener set the flag
    marker_at_start, \* the newest non-empty folder when this run started
    elapsed,         \* time.time() - start_time, in whole ticks
    duration,        \* contracts.py:219
    attempted,       \* history: the ids earlier runs attempted
    current          \* history: ids attempted by the run in progress

vars == << full_ids, input_file, max_runs, root, open_event, summary, listener,
           folders, clock, run, pc, quantity, last_id,
           contract_ids, i, report_data, should_stop, browser, reports,
           exit_code, cpc, status, file_path, calls, search_ok, open_status,
           access_ok, download_status, download_event, nav_ok, result,
           elapsed, duration, attempted, current, login_ok, login_calls,
           stopped_at, marker_at_start >>

mainVars == << run, pc, quantity, last_id, contract_ids, i, report_data,
               should_stop, browser, reports, exit_code, login_ok,
               login_calls >>
\* What no step of a run of main() changes.
inputVars == << full_ids, input_file, max_runs, root, open_event, summary,
               listener >>
loginVars == << login_ok, login_calls >>
histVars == << attempted, current, stopped_at, marker_at_start >>
stepVars == << search_ok, open_status, access_ok, download_status,
               download_event, nav_ok >>
timeVars == << elapsed, duration >>

\* The longest one contract is let to take, in ticks.
MaxElapsed == 2

\* ------------------------------------------------------------ sequences
RECURSIVE SeqsUpTo(_, _)
SeqsUpTo(S, n) ==
    IF n = 0 THEN {<< >>}
    ELSE LET shorter == SeqsUpTo(S, n - 1)
         IN shorter \cup {Append(s, x) : s \in {t \in shorter : Len(t) = n - 1}, x \in S}

Range(s) == {s[k] : k \in 1..Len(s)}

Min(a, b) == IF a < b THEN a ELSE b
Max(a, b) == IF a > b THEN a ELSE b

\* Python list slice s[start:stop] (0-based, step 1, negative bounds count
\* from the end, out-of-range bounds are clamped).
PyBound(n, len) == IF n < 0 THEN Max(n + len, 0) ELSE Min(n, len)
PySlice(s, start, stop) ==
    LET a == PyBound(start, Len(s))
        b == PyBound(stop, Len(s))
    IN IF a < b THEN SubSeq(s, a + 1, b) ELSE << >>

PyIndexLast(s, x) == (CHOOSE k \in 1..Len(s) : s[k] = x /\ \A j \in (k + 1)..Len(s) : s[j] # x) - 1

\* Python list.index(x): 0-based position of the first occurrence.
PyIndex(s, x) == (CHOOSE k \in 1..Len(s) : s[k] = x /\ \A j \in 1..(k - 1) : s[j] # x) - 1

\* ------------------------------------------------------- resume tracker
AllFolders(fs) == {d \in DOMAIN fs : fs[d].state \in {"empty", "full"}}

\* contracts.py:20-23  the entries of the output root that are directories
\* and contain at least one entry.  state: "absent" | "file" | "empty" | "full".
NonEmptyFolders(fs) == {d \in DOMAIN fs : fs[d].state = "full"}

\* contracts.py:12-32.  root_exists: EXTRACTED_CONTRACTS_DIR.exists();
\* io_error: iterdir/glob/getmtime raised.
get_last_contract_id(root_exists, io_error, fs) ==
    IF ~root_exists THEN None
    ELSE IF io_error THEN None
    ELSE IF NonEmptyFolders(fs) = {} THEN None
    ELSE CHOOSE d \in NonEmptyFolders(fs) :
             \A e \in NonEmptyFolders(fs) : fs[e].mtime <= fs[d].mtime

\* -------------------------------------------------------- batch planner
get_contracts_from_marker(last_processed_id, file, ids, qty) ==
    IF file # "ok" THEN << >>
    ELSE IF last_processed_id = None \/ last_processed_id \notin Range(ids)
         THEN PySlice(ids, 0, qty)
    ELSE PySlice(ids, PyIndex(ids, last_processed_id),
                 PyIndex(ids, last_processed_id) + qty)

\* contracts.py:34-60.  file: "ok" | "missing" | "no_column".
get_contracts_to_process(last_processed_id, file, ids, qty) ==
    IF file = "missing" THEN << >>
    ELSE IF file = "no_column" THEN << >>
    ELSE IF last_processed_id = None \/ last_processed_id \notin Range(ids)
         THEN PySlice(ids, 0, qty)
    ELSE LET last_index == PyIndex(ids, last_processed_id)
             next_index == last_index + 1
         IN PySlice(ids, next_index, next_index + qty)

\* main.py:70-86.  argv: [kind: "absent" | "bad" | "int", val: Int].
get_quantity_to_process(argv) ==
    IF argv.kind = "int" THEN argv.val
    ELSE DefaultQuantity

\* The command-line arguments a run is started with.
ArgvChoices ==
    {[kind |-> "absent", val |-> 0], [kind |-> "bad", val |-> 0]}
        \cup {[kind |-> "int", val |-> n] : n \in 0..MaxQty}

\* --------------------------------------------------- generate_summary
NoSummary == [success_count |-> 0, no_files_count |-> 0, error_count |-> 0]

CountStatus(rows, st) == Cardinality({k \in 1..Len(rows) : rows[k].Status = st})

generate_summary_two_way(rows) ==
    [success_count |-> CountStatus(rows, "PROCESSED"),
     no_files_count |-> 0,
     error_count |-> Len(rows) - CountStatus(rows, "PROCESSED")]

\* main.py:136-138
generate_summary(rows) ==
    [success_count |-> CountStatus(rows, "PROCESSED"),
     no_files_count |-> CountStatus(rows, "NO_FILES"),
     error_count |-> Len(rows) - CountStatus(rows, "PROCESSED")
                               - CountStatus(rows, "NO_FILES")]

\* ------------------------------------------------------ open_contract
\* What one call of open_contract meets on the page.  raised_at: the
\* Playwright call that raises, if any; links: rows of the result table whose
\* cell is the identifier; mid: the link carries a "_mid" attribute; option:
\* the menu shows "Abrir"; title: the record's title appears; tabs: one of
\* the tabs "Documentos" / "Visão Geral" is on the page.
OpenEvents ==
    [raised_at : {"none", "table", "link", "click", "option_click"},
     links : {0, 1}, mid : BOOLEAN, option : BOOLEAN, title : BOOLEAN,
     tabs : BOOLEAN]

NoOpenEvent ==
    [raised_at |-> "none", links |-> 0, mid |-> FALSE, option |-> FALSE,
     title |-> FALSE, tabs |-> FALSE]

\* contracts.py:125-176
open_contract(e) ==
    IF e.raised_at = "table" THEN "ERROR"
    ELSE IF e.links = 0 THEN "NOT_FOUND"
    ELSE IF e.raised_at = "link" THEN "ERROR"
    ELSE IF ~e.mid THEN "NOT_FOUND"
    ELSE IF e.raised_at = "click" THEN "ERROR"
    ELSE IF ~e.option THEN "NOT_FOUND"
    ELSE IF e.raised_at = "option_click" THEN "ERROR"
    ELSE IF e.title THEN "OPENED"
    ELSE IF e.tabs THEN "OPENED"
    ELSE "NOT_FOUND"

\* --------------------------------------------------- process_contract
OpenBranchNotFoundGoesOn(r) ==
    IF r = "OPENED" \/ r = "NOT_FOUND" THEN "go_on" ELSE "raise"

\* contracts.py:192-202  what process_contract does with the result of
\* open_contract: return at once, raise, or go on to the documents.
OpenBranch(r) ==
    IF r = "NOT_FOUND" THEN "return"
    ELSE IF r # "OPENED" THEN "raise"
    ELSE "go_on"

\* contracts.py:216  status = f"ERROR_{status}"
ErrorPrefixDropped(st) == st
ErrorPlain(st) == "ERROR"
ErrorPrefix(st) == "ERROR_" \o st

\* contracts.py:194-199, 218: a return inside the try block runs the finally
\* block before the function is left.
ReturnFromTryLeavesAtOnce == "returned"
ReturnFromTry == "finally"

\* contracts.py:215-218: the finally block follows the except handler.
AfterExceptSkipsFinally == "return"
AfterExceptRetries == "search"
AfterExcept == "finally"

\* contracts.py:226  str(file_path) if file_path else None
FilePathOut(fp) == IF fp # None THEN fp ELSE None

\* documents.py:85-88  zip_path = EXTRACTED_CONTRACTS_DIR / contract_id / name
ZipPath(id) == "dir/" \o id \o "/archive.zip"

\* contracts.py:222-227  the dict built by the finally block
Outcome(id, st, dur, fp) ==
    [Contract_ID |-> id, Status |-> st, Duration |-> dur,
     File_Path |-> FilePathOut(fp)]

\* documents.py:93-98  the except branch of download_contract_documents:
\* both arms return NO_FILES.
DownloadExceptStatus(no_docs_text) ==
    IF no_docs_text THEN "NO_FILES" ELSE "NO_FILES"

\* contracts.py:209-213  status after download_contract_documents returned
StatusAfterDownloadKept(st, dl) == st
StatusAfterDownload(st, dl) ==
    IF dl = "NO_FILES" THEN "NO_FILES"
    ELSE IF dl # "DOWNLOADED" THEN "DOWNLOAD_FAILED"
    ELSE st

\* contracts.py:209-213  whether process_contract raises after the download
RaisesUnlessDownloaded(dl) == dl # "DOWNLOADED"
RaisesAfterDownload(dl) == dl # "NO_FILES" /\ dl # "DOWNLOADED"

\* What happened inside download_contract_documents (documents.py:66-98):
\*   ev "saved"        lines 68-91 ran to the end;
\*   ev "no_download"  an exception before the download was received
\*                     (lines 68-84: page wait, click or expect_download);
\*   ev "save_failed"  the download was received and the folder made
\*                     (line 86), save_as raised (line 89);
\*   no_docs_text      the page shows "Nenhum documento disponível" (line 95);
\*   handler_raised    the page query of line 95 raised inside the handler.
NoDownloadEvent == [ev |-> "unset", no_docs_text |-> FALSE, handler_raised |-> FALSE]
DownloadEvents ==
    {[ev |-> "saved", no_docs_text |-> FALSE, handler_raised |-> FALSE]}
        \cup [ev : {"no_download", "save_failed"}, no_docs_text : BOOLEAN,
              handler_raised : BOOLEAN]

\* documents.py:66-98  the status download_contract_documents returns, or
\* "RAISED" when the exception of its handler propagates.
download_contract_documents(e) ==
    IF e.ev = "saved" THEN "DOWNLOADED"
    ELSE IF e.handler_raised THEN "RAISED"
    ELSE DownloadExceptStatus(e.no_docs_text)

\* documents.py:85-89  the output folder of contract id after the download
\* step; touch: whether saving over an existing archive renews the
\* folder's modification time.
FolderAfterDownload(f, e, now, touch) ==
    IF e.ev = "saved"
    THEN [state |-> "full",
          mtime |-> IF f.state = "full" /\ ~touch THEN f.mtime ELSE now]
    ELSE IF e.ev = "save_failed" /\ f.state = "absent"
    THEN [state |-> "empty", mtime |-> f.mtime]
    ELSE f

TypeOK ==
    /\ full_ids \in SeqsUpTo(Ids, MaxLen)
    /\ input_file \in {"ok", "missing", "no_column"}
    /\ max_runs \in 1..MaxRuns
    /\ run \in 0..max_runs
    /\ should_stop \in BOOLEAN
    /\ browser \in {"none", "open", "closed"}
    /\ i \in 1..(MaxLen + 1)

\* main.py:38  the flag of a new ProcessController is not set.
NotStopped == [at |-> "none", rows |-> 0]

\* Nothing has run yet: no plan, no browser, no report, no contract in flight.
InitIdle ==
    /\ clock = 0
    /\ run = 0
    /\ quantity = 0
    /\ contract_ids = << >>
    /\ i = 1
    /\ report_data = << >>
    /\ should_stop = FALSE
    /\ browser = "none"
    /\ reports = 0
    /\ exit_code = None
    /\ cpc = "none"
    /\ status = None
    /\ file_path = None
    /\ calls = << >>
    /\ search_ok = "unset"
    /\ open_status = "unset"
    /\ access_ok = "unset"
    /\ download_status = "unset"
    /\ download_event = NoDownloadEvent
    /\ nav_ok = "unset"
    /\ result = None
    /\ elapsed = 0
    /\ duration = 0
    /\ attempted = {}
    /\ current = << >>
    /\ login_ok = "unset"
    /\ login_calls = 0
    /\ stopped_at = NotStopped
    /\ marker_at_start = None

InitCommon ==
    /\ root = "exists"
    /\ open_event = NoOpenEvent
    /\ summary = NoSummary
    /\ input_file \in {"ok", "missing", "no_column"}
    /\ full_ids \in (IF input_file = "ok" THEN SeqsUpTo(Ids, MaxLen) ELSE {<< >>})
    /\ folders = [d \in Ids |-> [state |-> "absent", mtime |-> 0]]
    /\ pc = "start"
    /\ last_id = None
    /\ InitIdle

\* One run of main() from an empty output root; main.py never calls
\* start_listener.
Init == InitCommon /\ max_runs = 1 /\ listener = "not_started"

\* Consecutive runs of main() over the same sheet and output root.
InitResume == InitCommon /\ max_runs = MaxRuns /\ listener = "not_started"

ContractIdle ==
    /\ cpc' = "none"
    /\ status' = None
    /\ file_path' = None
    /\ calls' = << >>
    /\ search_ok' = "unset"
    /\ open_status' = "unset"
    /\ access_ok' = "unset"
    /\ download_status' = "unset"
    /\ download_event' = NoDownloadEvent
    /\ nav_ok' = "unset"
    /\ result' = None
    /\ elapsed' = 0
    /\ duration' = 0

\* main.py:156-185  a run of main() starts: quantity, resume marker, plan,
\* early return on an empty plan, browser and empty report otherwise.
StartRun ==
    /\ pc \in {"start", "done"}
    /\ run < max_runs
    /\ \E argv \in ArgvChoices, io_error \in BOOLEAN :
        LET q == get_quantity_to_process(argv)
            last == get_last_contract_id(TRUE, io_error, folders)
            plan == get_contracts_to_process(last, input_file, full_ids, q)
        IN /\ quantity' = q
           /\ last_id' = last
           /\ contract_ids' = plan
           /\ IF plan = << >>
              THEN /\ pc' = "done"
                   /\ browser' = "none"
              ELSE /\ pc' = "login"
                   /\ browser' = "open"
    /\ run' = run + 1
    /\ i' = 1
    /\ report_data' = << >>
    /\ should_stop' = FALSE
    /\ exit_code' = None
    /\ reports' = 0
    /\ attempted' = attempted \cup Range(current)
    /\ current' = << >>
    /\ login_ok' = "unset"
    /\ login_calls' = 0
    /\ stopped_at' = NotStopped
    /\ marker_at_start' = get_last_contract_id(TRUE, FALSE, folders)
    /\ ContractIdle
    /\ UNCHANGED << inputVars, folders, clock >>

AfterLoginIgnoresResult(ok) == "loop"

\* main.py:189-191  "if not login(...): return", inside the try of main
AfterLogin(ok) == IF ok THEN "loop" ELSE "finally"

\* main.py:187-191  login; a failed login returns through the finally block.
Login ==
    /\ pc = "login"
    /\ \E ok \in BOOLEAN :
        /\ login_ok' = PyBool(ok)
        /\ pc' = AfterLogin(ok)
    /\ login_calls' = login_calls + 1
    /\ UNCHANGED << inputVars, folders, clock, run, quantity, last_id,
                    contract_ids, i, report_data, should_stop, browser, reports,
                    exit_code, cpc, status, file_path, calls, stepVars, result,
                    timeVars, histVars >>

LoopEndsIgnoresStop(idx, plan, stop) == idx > Len(plan)

\* main.py:194-197  the for loop ends when the plan is exhausted or, at the
\* top of an iteration, when the stop flag is set.
LoopEnds(idx, plan, stop) == idx > Len(plan) \/ stop

\* main.py:194-204, contracts.py:182-184  one iteration of the batch loop
\* begins: plan exhausted, stop flag set, or process_contract is entered.
LoopHead ==
    /\ pc = "loop"
    /\ IF LoopEnds(i, contract_ids, should_stop)
       THEN /\ pc' = "finally"
            /\ UNCHANGED << cpc, status, file_path, current >>
       ELSE /\ pc' = "in_contract"
            /\ cpc' = "search"
            /\ status' = "PROCESSED"
            /\ file_path' = None
            /\ current' = Append(current, contract_ids[i])
    /\ UNCHANGED << inputVars, folders, clock, run, quantity, last_id,
                    contract_ids, i, report_data, should_stop, browser, reports,
                    exit_code, calls, stepVars, result, timeVars, attempted,
                    loginVars, stopped_at, marker_at_start >>

ContractId == contract_ids[i]

\* contracts.py:187-189  search_contract and the branch on its result
SearchStep ==
    /\ pc = "in_contract" /\ cpc = "search"
    /\ \E ok \in BOOLEAN :
        /\ search_ok' = PyBool(ok)
        /\ IF ok
           THEN cpc' = "open" /\ status' = status
           ELSE cpc' = "except" /\ status' = "SEARCH_FAILED"
    /\ calls' = Append(calls, "search")
    /\ UNCHANGED << inputVars, mainVars, histVars, folders, clock, file_path,
                    open_status, access_ok, download_status, download_event,
                    nav_ok, result, timeVars >>

\* contracts.py:191-202  open_contract and the branch on its result
OpenStep ==
    /\ pc = "in_contract" /\ cpc = "open"
    /\ \E e \in OpenEvents :
        LET r == open_contract(e)
        IN
        /\ open_status' = r
        /\ IF OpenBranch(r) = "return"
           THEN /\ status' = "NOT_FOUND"
                /\ result' = [Contract_ID |-> ContractId, Status |-> "NOT_FOUND",
                              Duration |-> elapsed, File_Path |-> None]
                /\ cpc' = ReturnFromTry
           ELSE IF OpenBranch(r) = "raise"
           THEN /\ status' = "OPEN_FAILED"
                /\ cpc' = "except"
                /\ result' = result
           ELSE /\ cpc' = "access"
                /\ UNCHANGED << status, result >>
    /\ calls' = Append(calls, "open")
    /\ UNCHANGED << inputVars, mainVars, histVars, folders, clock, file_path,
                    search_ok, access_ok, download_status, download_event,
                    nav_ok, timeVars >>

\* contracts.py:204-206  access_contract_documents and the branch on its result
AccessStep ==
    /\ pc = "in_contract" /\ cpc = "access"
    /\ \E ok \in BOOLEAN :
        /\ access_ok' = PyBool(ok)
        /\ IF ok
           THEN cpc' = "download" /\ status' = status
           ELSE cpc' = "except" /\ status' = "DOCUMENTS_ACCESS_FAILED"
    /\ calls' = Append(calls, "access_documents")
    /\ UNCHANGED << inputVars, mainVars, histVars, folders, clock, file_path,
                    search_ok, open_status, download_status, download_event,
                    nav_ok, result, timeVars >>

\* contracts.py:208-213, documents.py:55-98  download_contract_documents and
\* the branch on its result
DownloadStep ==
    /\ pc = "in_contract" /\ cpc = "download"
    /\ \E e \in DownloadEvents, touch \in BOOLEAN :
        LET dl == download_contract_documents(e)
        IN /\ download_event' = e
           /\ download_status' = dl
           /\ folders' = [folders EXCEPT ![ContractId] =
                              FolderAfterDownload(@, e, clock + 1, touch)]
           /\ clock' = IF e.ev = "saved" THEN clock + 1 ELSE clock
           /\ IF dl = "RAISED"
              THEN /\ cpc' = "except"
                   /\ UNCHANGED << status, file_path >>
              ELSE /\ file_path' = IF dl = "DOWNLOADED" THEN ZipPath(ContractId)
                                   ELSE None
                   /\ status' = StatusAfterDownload(status, dl)
                   /\ cpc' = IF RaisesAfterDownload(dl) THEN "except" ELSE "finally"
    /\ calls' = Append(calls, "download")
    /\ UNCHANGED << inputVars, mainVars, histVars, search_ok, open_status,
                    access_ok, nav_ok, result, timeVars >>

\* contracts.py:215-216  except Exception: status = f"ERROR_{status}"
ExceptStep ==
    /\ pc = "in_contract" /\ cpc = "except"
    /\ status' = ErrorPrefix(status)
    /\ cpc' = AfterExcept
    /\ UNCHANGED << inputVars, mainVars, histVars, folders, clock, file_path,
                    calls, stepVars, result, timeVars >>

\* contracts.py:95-106  what a call of navigate_to_homepage leaves of the
\* status of the contract in flight
StatusAfterNavigateMasked(st, ok) == IF ok THEN st ELSE "NAVIGATE_FAILED"
StatusAfterNavigate(st, ok) == st

\* contracts.py:218-220, 95-106  the finally block samples the duration,
\* then calls navigate_to_homepage, whose own exceptions end in
\* "return False"; the result is not looked at.
NavigateStep ==
    /\ pc = "in_contract" /\ cpc = "finally"
    /\ duration' = elapsed
    /\ \E ok \in BOOLEAN :
        /\ nav_ok' = PyBool(ok)
        /\ status' = StatusAfterNavigate(status, ok)
    /\ calls' = Append(calls, "navigate_to_homepage")
    /\ cpc' = "return"
    /\ UNCHANGED << inputVars, mainVars, histVars, folders, clock, file_path,
                    search_ok, open_status, access_ok, download_status,
                    download_event, result, elapsed >>

\* contracts.py:222-227  the return of the finally block
ReturnStep ==
    /\ pc = "in_contract" /\ cpc = "return"
    /\ result' = Outcome(ContractId, status, duration, file_path)
    /\ cpc' = "returned"
    /\ UNCHANGED << inputVars, mainVars, histVars, folders, clock, status,
                    file_path, calls, stepVars, timeVars >>

\* main.py:210-220  the row of the returned outcome is appended, with the
\* duration the loop measured itself, and the loop goes on to the next
\* identifier
AppendResult ==
    /\ pc = "in_contract" /\ cpc = "returned"
    /\ report_data' = Append(report_data,
                             [Contract_ID |-> ContractId,
                              Status |-> result.Status,
                              Duration |-> elapsed,
                              File_Path |-> result.File_Path])
    /\ i' = i + 1
    /\ pc' = "loop"
    /\ ContractIdle
    /\ UNCHANGED << inputVars, histVars, folders, clock, run, quantity, last_id,
                    contract_ids, should_stop, browser, reports, exit_code,
                    loginVars >>

SaveAlways(rows) == TRUE

\* main.py:239  "if not report_data.empty": a report without rows is not
\* written.
SaveNeeded(rows) == rows # << >>

sys_exit_swallowed(code) == 0

\* main.py:246-248  the outermost except clause ends the process with
\* sys.exit(code).
sys_exit(code) == code

browser_closed_anyway(b) == "closed"

\* main.py:240-244  save_report raised: browser.close() of line 244 is not
\* reached and the browser stays as it was.
browser_after_failed_save(b) == b

\* main.py:233-235, 246-248  the exit code once the finally block is through:
\* an exception in flight reaches sys.exit(1), a plain return sets none.
ExitAfterFinally(at, code) == IF at = "finally_raised" THEN sys_exit(1) ELSE code

\* main.py:237-248, file_utils.py:7-15  the finally block of main: the report
\* is saved when it has rows, then the browser is closed; a failure of
\* save_report propagates to sys.exit(1).
Finalize ==
    /\ pc \in {"finally", "finally_raised"}
    /\ \E save_ok \in BOOLEAN :
        IF ~SaveNeeded(report_data)
        THEN /\ browser' = "closed"
             /\ exit_code' = ExitAfterFinally(pc, exit_code)
             /\ UNCHANGED reports
        ELSE IF save_ok
        THEN /\ reports' = reports + 1
             /\ browser' = "closed"
             /\ exit_code' = ExitAfterFinally(pc, exit_code)
        ELSE /\ exit_code' = sys_exit(1)
             /\ browser' = browser_after_failed_save(browser)
             /\ UNCHANGED reports
    /\ pc' = "done"
    /\ UNCHANGED << inputVars, histVars, folders, clock, run, quantity, last_id,
                    contract_ids, i, report_data, should_stop, cpc, status,
                    file_path, calls, stepVars, result, timeVars, loginVars >>

Next ==
    \/ StartRun
    \/ Login
    \/ LoopHead
    \/ SearchStep
    \/ OpenStep
    \/ AccessStep
    \/ DownloadStep
    \/ ExceptStep
    \/ NavigateStep
    \/ ReturnStep
    \/ AppendResult
    \/ Finalize

Spec == Init /\ [][Next]_vars

ResumeSpec == InitResume /\ [][Next]_vars

ListenerRunsUnstarted(l) == TRUE

\* main.py:47-50  the thread that waits for the key exists only once
\* start_listener was called.
ListenerRuns(l) == l = "started"

\* main.py:41-50, teste.py:176-177  the listener thread started by
\* start_listener: the awaited key arrives at any moment of the run and the
\* thread sets the flag, once.
ListenForStop ==
    /\ ListenerRuns(listener)
    /\ pc \in {"login", "loop", "in_contract", "finally"}
    /\ ~should_stop
    /\ should_stop' = TRUE
    /\ stopped_at' = [at |-> pc, rows |-> Len(report_data)]
    /\ UNCHANGED << inputVars, folders, clock, run, pc, quantity, last_id,
                    contract_ids, i, report_data, browser, reports, exit_code,
                    loginVars, cpc, status, file_path, calls, stepVars, result,
                    timeVars, attempted, current, marker_at_start >>

NextStop ==
    \/ Next
    \/ ListenForStop

\* main.py:166, teste.py:175-177  one run of either entry point: main.py
\* creates the controller only, teste.py also starts its listener.
InitStop ==
    /\ InitCommon
    /\ max_runs = 1
    /\ listener \in {"not_started", "started"}

StopSpec == InitStop /\ [][NextStop]_vars

\* contracts.py:182, 219, main.py:201, 210  time passes while a contract is
\* being processed.  A tick between NavigateStep and ReturnStep is time spent
\* inside navigate_to_homepage.
Tick ==
    /\ pc = "in_contract"
    /\ elapsed < MaxElapsed
    /\ elapsed' = elapsed + 1
    /\ UNCHANGED << inputVars, mainVars, histVars, folders, clock, cpc, status,
                    file_path, calls, stepVars, result, duration >>

\* main.py:224-229  the row the except clause of the loop body appends
ErrorRow(id) ==
    [Contract_ID |-> id, Status |-> "ERROR", Duration |-> 0, File_Path |-> None]

AfterLoopExceptAborts == "finally"

\* main.py:231  continue
AfterLoopExcept == "loop"

\* main.py:199-201, 222-231  an exception escapes the loop body before
\* process_contract is called (the print of line 200): the except clause
\* appends the ERROR row and continues.
ExceptBeforeCall ==
    /\ pc = "loop"
    /\ ~LoopEnds(i, contract_ids, should_stop)
    /\ report_data' = Append(report_data, ErrorRow(ContractId))
    /\ i' = i + 1
    /\ pc' = AfterLoopExcept
    /\ UNCHANGED << inputVars, histVars, folders, clock, run, quantity, last_id,
                    contract_ids, should_stop, browser, reports, exit_code,
                    loginVars, cpc, status, file_path, calls, stepVars, result,
                    timeVars >>

\* main.py:210-218, 222-231  an exception escapes after process_contract
\* returned and before its row is in report_data (round, pd.concat): the
\* except clause appends the ERROR row and continues.
ExceptAtConcat ==
    /\ pc = "in_contract" /\ cpc = "returned"
    /\ report_data' = Append(report_data, ErrorRow(ContractId))
    /\ i' = i + 1
    /\ pc' = AfterLoopExcept
    /\ ContractIdle
    /\ UNCHANGED << inputVars, histVars, folders, clock, run, quantity, last_id,
                    contract_ids, should_stop, browser, reports, exit_code,
                    loginVars >>

\* main.py:213-220, 222-231  the row of the outcome is appended and then the
\* print of line 220 raises: the except clause appends the ERROR row after
\* it and continues.
ExceptAfterAppend ==
    /\ pc = "in_contract" /\ cpc = "returned"
    /\ report_data' = Append(Append(report_data,
                                    [Contract_ID |-> ContractId,
                                     Status |-> result.Status,
                                     Duration |-> elapsed,
                                     File_Path |-> result.File_Path]),
                             ErrorRow(ContractId))
    /\ i' = i + 1
    /\ pc' = AfterLoopExcept
    /\ ContractIdle
    /\ UNCHANGED << inputVars, histVars, folders, clock, run, quantity, last_id,
                    contract_ids, should_stop, browser, reports, exit_code,
                    loginVars >>

\* main.py:199-201, 222-235  the loop body raises at the print of line 200
\* and its except clause raises too, at the concat of lines 224-229 (no row)
\* or at the print of line 230 (the ERROR row is in): the outer except
\* re-raises and the finally block runs with the exception in flight.
ExceptInHandler ==
    /\ pc = "loop"
    /\ ~LoopEnds(i, contract_ids, should_stop)
    /\ \E row_in \in BOOLEAN :
        report_data' = IF row_in
                       THEN Append(report_data, ErrorRow(ContractId))
                       ELSE report_data
    /\ pc' = "finally_raised"
    /\ UNCHANGED << inputVars, histVars, folders, clock, run, quantity, last_id,
                    contract_ids, i, should_stop, browser, reports, exit_code,
                    loginVars, cpc, status, file_path, calls, stepVars, result,
                    timeVars >>

NextEnd ==
    \/ Next
    \/ ListenForStop
    \/ ExceptInHandler

\* One run of either entry point in which the batch phase may end by an
\* error that is re-raised.
EndSpec == InitStop /\ [][NextEnd]_vars

NextFault ==
    \/ Next
    \/ Tick
    \/ ExceptBeforeCall
    \/ ExceptAtConcat
    \/ ExceptAfterAppend

\* One run in which time passes and the loop body may raise.
FaultSpec == Init /\ [][NextFault]_vars

\* ------------------------------------------------ the planner on its own
PlanIds == {"A", "B", "C", "D", "E"}
PlanMaxLen == 5
PlanMaxQty == 6
PlanMinusQty == 2

\* A name no row of the sheet carries.
AbsentId == "Z"

\* main.py:73-79  int(sys.argv[1]) takes any integer, also a negative one.
PlanArgvChoices ==
    {[kind |-> "absent", val |-> 0], [kind |-> "bad", val |-> 0]}
        \cup {[kind |-> "int", val |-> n] : n \in (0 - PlanMinusQty)..PlanMaxQty}

\* contracts.py:34, 50  the planner is handed any marker and reads any column
\* of identifiers, repeated ones included.
InitPlanner ==
    /\ input_file = "ok"
    /\ full_ids \in SeqsUpTo(PlanIds, PlanMaxLen)
    /\ last_id \in {None, AbsentId} \cup PlanIds
    /\ root = "exists"
    /\ open_event = NoOpenEvent
    /\ summary = NoSummary
    /\ listener = "not_started"
    /\ folders = [d \in Ids |-> [state |-> "absent", mtime |-> 0]]
    /\ max_runs = 1
    /\ pc = "plan"
    /\ InitIdle

\* main.py:168, 175  quantity = get_quantity_to_process();
\* contract_ids = get_contracts_to_process(last_id, quantity)
PlanStep ==
    /\ pc = "plan"
    /\ \E argv \in PlanArgvChoices :
        LET q == get_quantity_to_process(argv)
        IN /\ quantity' = q
           /\ contract_ids' = get_contracts_to_process(last_id, input_file,
                                                       full_ids, q)
    /\ pc' = "planned"
    /\ UNCHANGED << inputVars, histVars, folders, clock, run, last_id, i,
                    report_data, should_stop, browser, reports, exit_code,
                    loginVars, cpc, status, file_path, calls, stepVars, result,
                    timeVars >>

NextPlanner == PlanStep

PlannerSpec == InitPlanner /\ [][NextPlanner]_vars

\* ------------------------------------------ the resume tracker on its own
MaxMtime == 2

\* contracts.py:16-23  any output root: missing, unreadable, or holding plain
\* files, empty directories and directories with entries of any age.
InitTracker ==
    /\ root \in {"exists", "missing", "unreadable"}
    /\ folders \in (IF root = "missing"
                    THEN {[d \in Ids |-> [state |-> "absent", mtime |-> 0]]}
                    ELSE [Ids -> [state : {"absent", "file", "empty", "full"},
                                  mtime : 0..MaxMtime]])
    /\ input_file = "ok"
    /\ full_ids = << >>
    /\ open_event = NoOpenEvent
    /\ summary = NoSummary
    /\ listener = "not_started"
    /\ max_runs = 1
    /\ last_id = None
    /\ pc = "track"
    /\ InitIdle

\* main.py:172  last_id = get_last_contract_id()
TrackStep ==
    /\ pc = "track"
    /\ last_id' = get_last_contract_id(root # "missing", root = "unreadable",
                                       folders)
    /\ pc' = "tracked"
    /\ UNCHANGED << inputVars, histVars, folders, clock, run, quantity,
                    contract_ids, i, report_data, should_stop, browser, reports,
                    exit_code, loginVars, cpc, status, file_path, calls,
                    stepVars, result, timeVars >>

NextTracker == TrackStep

TrackerSpec == InitTracker /\ [][NextTracker]_vars

\* ------------------------------------------------ open_contract on its own
\* contracts.py:125  a call of open_contract on any page.
InitOpen ==
    /\ open_event \in OpenEvents
    /\ summary = NoSummary
    /\ listener = "not_started"
    /\ root = "exists"
    /\ input_file = "ok"
    /\ full_ids = << >>
    /\ folders = [d \in Ids |-> [state |-> "absent", mtime |-> 0]]
    /\ max_runs = 1
    /\ last_id = None
    /\ pc = "open_call"
    /\ InitIdle

\* contracts.py:191  open_status = open_contract(page, contract_id)
OpenCall ==
    /\ pc = "open_call"
    /\ open_status' = open_contract(open_event)
    /\ pc' = "open_returned"
    /\ UNCHANGED << inputVars, histVars, folders, clock, run, quantity, last_id,
                    contract_ids, i, report_data, should_stop, browser, reports,
                    exit_code, loginVars, cpc, status, file_path, calls,
                    search_ok, access_ok, download_status, download_event,
                    nav_ok, result, timeVars >>

NextOpen == OpenCall

OpenSpec == InitOpen /\ [][NextOpen]_vars

\* --------------------------------------------- generate_summary on its own
SummaryMaxLen == 3

\* main.py:213-218, 224-229, contracts.py:182-227  the statuses a row can carry
SummaryStatuses ==
    {"PROCESSED", "NO_FILES", "NOT_FOUND", "ERROR_SEARCH_FAILED",
     "ERROR_PROCESSED", "ERROR"}

\* main.py:125  generate_summary is handed any report.
InitSummary ==
    /\ report_data \in SeqsUpTo({[Contract_ID |-> "A", Status |-> st,
                                   Duration |-> 0, File_Path |-> None] :
                                       st \in SummaryStatuses}, SummaryMaxLen)
    /\ summary = NoSummary
    /\ listener = "not_started"
    /\ open_event = NoOpenEvent
    /\ root = "exists"
    /\ input_file = "ok"
    /\ full_ids = << >>
    /\ folders = [d \in Ids |-> [state |-> "absent", mtime |-> 0]]
    /\ max_runs = 1
    /\ last_id = None
    /\ pc = "summary_call"
    /\ clock = 0
    /\ run = 0
    /\ quantity = 0
    /\ contract_ids = << >>
    /\ i = 1
    /\ should_stop = FALSE
    /\ browser = "none"
    /\ reports = 0
    /\ exit_code = None
    /\ cpc = "none"
    /\ status = None
    /\ file_path = None
    /\ calls = << >>
    /\ search_ok = "unset"
    /\ open_status = "unset"
    /\ access_ok = "unset"
    /\ download_status = "unset"
    /\ download_event = NoDownloadEvent
    /\ nav_ok = "unset"
    /\ result = None
    /\ elapsed = 0
    /\ duration = 0
    /\ attempted = {}
    /\ current = << >>
    /\ login_ok = "unset"
    /\ login_calls = 0
    /\ stopped_at = NotStopped
    /\ marker_at_start = None

\* main.py:125-138  a call of generate_summary
SummaryCall ==
    /\ pc = "summary_call"
    /\ summary' = generate_summary(report_data)
    /\ pc' = "summary_returned"
    /\ UNCHANGED << full_ids, input_file, max_runs, root, open_event, listener,
                    histVars,
                    folders, clock, run, quantity, last_id, contract_ids, i,
                    report_data, should_stop, browser, reports, exit_code,
                    loginVars, cpc, status, file_path, calls, stepVars, result,
                    timeVars >>

NextSummary == SummaryCall

SummarySpec == InitSummary /\ [][NextSummary]_vars

\* ------------------------------------------------------------- claims
Count(seq, x) == Cardinality({k \in 1..Len(seq) : seq[k] = x})
Called(step) == \E k \in 1..Len(calls) : calls[k] = step
LastCall == IF calls = << >> THEN None ELSE calls[Len(calls)]

\* process_contract has handed its outcome to the batch loop, which has not
\* appended the row yet.
Returned == pc = "in_contract" /\ cpc = "returned"

\* navigate_to_homepage was called exactly once, after every other gateway
\* call made for the contract.
NavigatedOnceLast ==
    /\ Count(calls, "navigate_to_homepage") = 1
    /\ LastCall = "navigate_to_homepage"

\* C1 (as stated): the plan of a later run holds no contract an earlier run
\* attempted, and every list entry in front of the plan was attempted
\* before: resuming neither reprocesses nor skips contracts.
C1_ResumeNeitherReprocessesNorSkips ==
    (run >= 2 /\ input_file = "ok") =>
        /\ Range(contract_ids) \cap attempted = {}
        /\ \E a \in 0..Len(full_ids) :
            /\ contract_ids = PySlice(full_ids, a, a + quantity)
            /\ \A k \in 1..a : full_ids[k] \in attempted

\* C2 (as stated): when open returns NOT_FOUND, process_contract returns
\* without calling navigate_to_homepage.
C2_NotFoundSkipsNavigateHome ==
    (Returned /\ open_status = "NOT_FOUND") => ~Called("navigate_to_homepage")

\* C2 (amended): when open returns NOT_FOUND, the finally block still runs:
\* navigate_to_homepage is called exactly once, after open, before the
\* outcome (status NOT_FOUND) is returned.
C2_NotFoundStillNavigatesHome ==
    (Returned /\ open_status = "NOT_FOUND") =>
        /\ NavigatedOnceLast
        /\ result.Status = "NOT_FOUND"

C2_Witness ==
    /\ Returned
    /\ open_status = "NOT_FOUND"
    /\ calls = << "search", "open", "navigate_to_homepage" >>

\* C3: on every terminal branch other than NOT_FOUND navigate_to_homepage is
\* called exactly once, after the last gateway step attempted and before
\* the outcome is returned; it is never called before the try block is left.
C3_NavigateHomeOnceOnEveryOtherBranch ==
    /\ (Returned /\ result.Status # "NOT_FOUND") => NavigatedOnceLast
    /\ (cpc \in {"search", "open", "access", "download", "except", "finally"})
           => ~Called("navigate_to_homepage")

C3_Witness ==
    /\ Returned
    /\ result.Status = "ERROR_DOCUMENTS_ACCESS_FAILED"
    /\ calls = << "search", "open", "access_documents", "navigate_to_homepage" >>

\* No gateway step after the search was attempted.
OnlySearchAttempted ==
    ~Called("open") /\ ~Called("access_documents") /\ ~Called("download")

\* C4 (as stated): a failed search gives status exactly SEARCH_FAILED,
\* file_path none, and no open, access_documents or download call.
C4_SearchFailedStatusUnprefixed ==
    (Returned /\ search_ok = "False") =>
        /\ result.Status = "SEARCH_FAILED"
        /\ result.File_Path = None
        /\ OnlySearchAttempted

\* C4 (amended): a failed search gives status exactly ERROR_SEARCH_FAILED
\* (the raise of line 189 is caught by the handler of line 215), file_path
\* none, and no open, access_documents or download call.
C4_SearchFailedStatusPrefixed ==
    (Returned /\ search_ok = "False") =>
        /\ result.Status = "ERROR_SEARCH_FAILED"
        /\ result.File_Path = None
        /\ OnlySearchAttempted

C4_Witness ==
    /\ Returned
    /\ search_ok = "False"
    /\ result.Status = "ERROR_SEARCH_FAILED"

AllStepsSucceeded ==
    /\ search_ok = "True"
    /\ open_status = "OPENED"
    /\ access_ok = "True"
    /\ download_status = "DOWNLOADED"

\* C5: the outcome has status PROCESSED exactly when search, open,
\* access_documents and download all succeeded, and a file_path exactly
\* when its status is PROCESSED.
C5_ProcessedIffAllStepsSucceeded ==
    Returned =>
        /\ (result.Status = "PROCESSED") <=> AllStepsSucceeded
        /\ (result.File_Path # None) <=> (result.Status = "PROCESSED")

C5_Witness ==
    /\ Returned
    /\ AllStepsSucceeded
    /\ result.Status = "PROCESSED"
    /\ result.File_Path = ZipPath(ContractId)

\* C6: when the download step reports no files the status is exactly
\* NO_FILES, file_path is none and navigate_to_homepage is still called.
C6_NoFilesIsNotAnError ==
    (Returned /\ download_status = "NO_FILES") =>
        /\ result.Status = "NO_FILES"
        /\ result.File_Path = None
        /\ NavigatedOnceLast

C6_Witness ==
    /\ Returned
    /\ download_status = "NO_FILES"
    /\ download_event.no_docs_text
    /\ result.Status = "NO_FILES"

\* The download step failed and the page does not say that the contract
\* has no documents.
DownloadFailedOtherwise ==
    /\ download_event.ev \in {"no_download", "save_failed"}
    /\ ~download_event.no_docs_text

\* C7 (as stated): a download that fails for another reason than "no files"
\* gives status DOWNLOAD_FAILED, and navigate_to_homepage is then called.
C7_DownloadFailureReported ==
    (Returned /\ DownloadFailedOtherwise) =>
        /\ result.Status = "DOWNLOAD_FAILED"
        /\ NavigatedOnceLast

\* C8 (as stated): an open result other than OPENED or NOT_FOUND gives status
\* exactly OPEN_FAILED, a failed access_documents exactly
\* DOCUMENTS_ACCESS_FAILED, and no later gateway step is attempted.
C8_OpenAndAccessFailuresUnprefixed ==
    /\ (Returned /\ open_status = "ERROR") =>
           /\ result.Status = "OPEN_FAILED"
           /\ ~Called("access_documents") /\ ~Called("download")
    /\ (Returned /\ access_ok = "False") =>
           /\ result.Status = "DOCUMENTS_ACCESS_FAILED"
           /\ ~Called("download")

\* C8 (amended): an open result other than OPENED or NOT_FOUND gives status
\* exactly ERROR_OPEN_FAILED, a failed access_documents exactly
\* ERROR_DOCUMENTS_ACCESS_FAILED, and no later gateway step is attempted.
C8_OpenAndAccessFailuresPrefixed ==
    /\ (Returned /\ open_status = "ERROR") =>
           /\ result.Status = "ERROR_OPEN_FAILED"
           /\ ~Called("access_documents") /\ ~Called("download")
    /\ (Returned /\ access_ok = "False") =>
           /\ result.Status = "ERROR_DOCUMENTS_ACCESS_FAILED"
           /\ ~Called("download")

C8_Witness ==
    /\ Returned
    /\ open_status = "ERROR"
    /\ result.Status = "ERROR_OPEN_FAILED"
    /\ calls = << "search", "open", "navigate_to_homepage" >>

C8_WitnessAccess ==
    /\ Returned
    /\ access_ok = "False"
    /\ result.Status = "ERROR_DOCUMENTS_ACCESS_FAILED"

\* The failure status of the state machine for each gateway step.
FailureStatusOf(step) ==
    CASE step = "search" -> "SEARCH_FAILED"
      [] step = "open" -> "OPEN_FAILED"
      [] step = "access_documents" -> "DOCUMENTS_ACCESS_FAILED"
      [] step = "download" -> "DOWNLOAD_FAILED"

\* The last of search, open, access_documents, download that was called.
LastGatewayStep ==
    LET ks == {k \in 1..Len(calls) : calls[k] # "navigate_to_homepage"}
    IN calls[CHOOSE k \in ks : \A j \in ks : j <= k]

\* A gateway step raised instead of returning.
Faulted == download_status = "RAISED"

\* C9 (as stated): after an exception raised by a gateway step the outcome
\* status is the ERROR_ variant of the state last attempted, never unset.
C9_FaultTaggedWithLastAttemptedState ==
    (Returned /\ Faulted) =>
        /\ result.Status # None
        /\ result.Status = "ERROR_" \o FailureStatusOf(LastGatewayStep)

\* C10: a failure of navigate_to_homepage is swallowed: the call changes
\* neither status nor file_path, the outcome returned carries them, and
\* the batch loop appends the row and goes on to the next contract.
C10_NavigateHomeFailureSwallowed ==
    [][ /\ (cpc = "finally" /\ cpc' # "finally") =>
               /\ status' = status
               /\ file_path' = file_path
               /\ cpc' = "return"
        /\ (cpc = "return" /\ cpc' # "return") =>
               /\ result' = Outcome(ContractId, status, duration, file_path)
               /\ cpc' = "returned"
        /\ (cpc = "returned" /\ cpc' # "returned") =>
               /\ report_data' = Append(report_data,
                                        [Contract_ID |-> ContractId,
                                         Status |-> status,
                                         Duration |-> elapsed,
                                         File_Path |-> FilePathOut(file_path)])
               /\ i' = i + 1
               /\ pc' = "loop" ]_vars

C10_Witness ==
    /\ Returned
    /\ nav_ok = "False"
    /\ result.Status = "PROCESSED"
    /\ i = 2

\* The gateway calls of the contract in flight, navigate_to_homepage left out.
StepCalls == SelectSeq(calls, LAMBDA c : c # "navigate_to_homepage")

StepOrder == << "search", "open", "access_documents", "download" >>

\* C11: within one process_contract call the steps are attempted in the
\* order search, open, access_documents, download, each at most once, and a
\* step is attempted only after the one before it succeeded.
C11_StepsInOrderOnceGated ==
    /\ Len(StepCalls) <= Len(StepOrder)
    /\ StepCalls = SubSeq(StepOrder, 1, Len(StepCalls))
    /\ Called("open") => search_ok = "True"
    /\ Called("access_documents") => open_status = "OPENED"
    /\ Called("download") => access_ok = "True"

C11_Witness ==
    /\ Returned
    /\ StepCalls = StepOrder
    /\ download_status = "NO_FILES"
    /\ nav_ok = "True"

ErrorRowsFor(rows, id) ==
    {k \in 1..Len(rows) : rows[k].Contract_ID = id /\ rows[k].Status = "ERROR"}

Planned == pc = "planned"

MarkerInList == last_id # None /\ last_id \in Range(full_ids)

\* The 1-based row of the first occurrence of the marker in the sheet.
MarkerRow ==
    CHOOSE k \in 1..Len(full_ids) :
        full_ids[k] = last_id /\ \A j \in 1..(k - 1) : full_ids[j] # last_id

\* The number of entries that remain after the marker.
Remaining ==
    IF MarkerInList THEN Len(full_ids) - MarkerRow ELSE Len(full_ids)

\* C15: for every non-empty identifier list, every quantity >= 1 and every
\* resume marker, the plan has length min(quantity, number of entries after
\* the marker), all entries counting when the marker is none or absent.
C15_PlanLength ==
    (Planned /\ full_ids # << >> /\ quantity >= 1) =>
        Len(contract_ids) = Min(quantity, Remaining)

\* The marker sits in the middle of a list with a repeated identifier and the
\* quantity cuts the remainder short.
C15_Witness ==
    /\ Planned
    /\ full_ids = << "A", "B", "C", "B", "E" >>
    /\ last_id = "B"
    /\ quantity = 2
    /\ Len(contract_ids) = 2

\* C16: the plan is a contiguous, order-preserving slice of the full list:
\* the first `quantity` entries when the marker is none or absent, otherwise
\* the up-to-`quantity` entries right after the marker's position, and empty
\* when the marker is the last entry (quantity >= 0).
C16_PlanIsSliceAfterMarker ==
    (Planned /\ quantity >= 0) =>
        LET from == IF MarkerInList THEN MarkerRow ELSE 0
            n == Min(quantity, Len(full_ids) - from)
        IN /\ Len(contract_ids) = n
           /\ \A k \in 1..n : contract_ids[k] = full_ids[from + k]
           /\ (MarkerInList /\ MarkerRow = Len(full_ids)) => contract_ids = << >>

C16_Witness ==
    /\ Planned
    /\ full_ids = << "A", "B", "C", "D", "E" >>
    /\ last_id = "C"
    /\ quantity = 2
    /\ contract_ids = << "D", "E" >>

\* C17: whenever the marker occurs in the list, repeated identifiers
\* included, the plan holds neither the marker itself nor any identifier
\* that the list holds before the marker.
C17_PlanHoldsNothingDone ==
    (Planned /\ MarkerInList) =>
        /\ last_id \notin Range(contract_ids)
        /\ \A k \in 1..(MarkerRow - 1) : full_ids[k] \notin Range(contract_ids)

\* C18: for every quantity the entry point can pass on (any parsed integer,
\* zero and negative ones included, or the default), the plan is never
\* longer than the quantity.
C18_PlanNeverLongerThanQuantity ==
    Planned => Len(contract_ids) <= quantity

\* The sub-directories of the output root that hold at least one entry.
SubdirsWithEntries == {d \in Ids : folders[d].state = "full"}

C20_LoginOnceAndFailureAborts ==
    /\ login_calls <= 1
    /\ (pc \in {"loop", "in_contract"} \/ current # << >> \/ report_data # << >>)
            => (login_calls = 1 /\ login_ok = "True")
    /\ login_ok = "False" =>
            /\ pc \in {"finally", "done"}
            /\ current = << >>
            /\ report_data = << >>
            /\ reports = 0

C20_Witness ==
    /\ pc = "done"
    /\ login_calls = 1
    /\ login_ok = "False"
    /\ Len(contract_ids) = 2
    /\ current = << >>
    /\ report_data = << >>
    /\ browser = "closed"

\* C21: if writing the report fails at the end of a run, the failure is not
\* swallowed: it propagates past browser.close() to the top level and the
\* process ends with a non-zero exit code.
C21_SaveFailureEndsWithNonZeroExit ==
    (pc = "done" /\ report_data # << >> /\ reports = 0) =>
        /\ exit_code # 0
        /\ browser = "open"

C21_Witness ==
    /\ pc = "done"
    /\ Len(report_data) = 2
    /\ reports = 0
    /\ exit_code = 1
    /\ browser = "open"

\* C22 as stated: every run that reaches the batch phase (the browser was
\* started) writes exactly one report when it ends, whether it ends by
\* completion, stop request, login failure or error; none ends without a
\* report and none writes it twice.
C22_EveryBatchRunWritesOneReport ==
    /\ reports <= 1
    /\ (pc = "done" /\ browser # "none") => reports = 1

\* C22 amended: a run that reaches the batch phase writes at most one
\* report, and only when it ends; it writes none when no outcome was
\* recorded, and writes one when outcomes were recorded and the run got past
\* save_report.
C22_OneReportIffOutcomesRecorded ==
    /\ reports <= 1
    /\ pc # "done" => reports = 0
    /\ (pc = "done" /\ report_data = << >>) => reports = 0
    /\ (pc = "done" /\ report_data # << >> /\ browser = "closed") => reports = 1

\* The stop request arrived before the first contract: the run ends with the
\* browser closed and no report.
C22_Witness ==
    /\ pc = "done"
    /\ login_ok = "True"
    /\ stopped_at.at \in {"login", "loop"}
    /\ stopped_at.rows = 0
    /\ report_data = << >>
    /\ reports = 0
    /\ browser = "closed"

\* The rows recorded so far are those of the first i - 1 identifiers of the
\* plan, one row each, in plan order.
RowsFollowPlan ==
    /\ Len(report_data) = i - 1
    /\ Len(report_data) <= Len(contract_ids)
    /\ \A k \in 1..Len(report_data) :
            k <= Len(contract_ids) => report_data[k].Contract_ID = contract_ids[k]

\* C23: at every point of a run the outcome sequence holds exactly one row
\* per contract attempted so far, in plan order (its Contract_ID column is a
\* prefix of the plan), and rows already appended are never modified or
\* removed.
C23_OneRowPerAttemptInPlanOrder ==
    [][/\ RowsFollowPlan'
       /\ Len(report_data') >= Len(report_data)
       /\ \A k \in 1..Len(report_data) :
              k <= Len(report_data') => report_data'[k] = report_data[k]
      ]_vars

\* C24: for a contract where open returns NOT_FOUND the outcome has status
\* exactly NOT_FOUND, a non-negative duration and no file path, and neither
\* access_documents nor download is attempted.
C24_NotFoundOutcome ==
    (Returned /\ open_status = "NOT_FOUND") =>
        /\ result = Outcome(ContractId, "NOT_FOUND", result.Duration, None)
        /\ result.Duration >= 0
        /\ ~Called("access_documents")
        /\ ~Called("download")

\* The NOT_FOUND contract took some time.
C24_Witness ==
    /\ Returned
    /\ open_status = "NOT_FOUND"
    /\ result.Status = "NOT_FOUND"
    /\ result.Duration = 1
    /\ result.File_Path = None

\* C25: the duration in the outcome returned by process_contract spans from
\* the start of the search step to the moment the outcome is returned, the
\* time spent in navigate_to_homepage included.
C25_DurationIncludesNavigateHome ==
    [][(pc = "in_contract" /\ cpc = "return" /\ cpc' = "returned") =>
            result'.Duration = elapsed
      ]_vars

\* The rows of the report whose status is neither PROCESSED nor NO_FILES.
OtherRows ==
    {k \in 1..Len(report_data) :
        report_data[k].Status \notin {"PROCESSED", "NO_FILES"}}

\* C26: generate_summary counts as successes the outcomes with status
\* PROCESSED, as no-document outcomes those with status NO_FILES and as
\* failures all the others, so the three counts sum to the number of
\* outcomes and a NO_FILES outcome is never counted as a failure.
C26_SummaryCounts ==
    (pc = "summary_returned") =>
        /\ summary.success_count =
               Cardinality({k \in 1..Len(report_data) :
                               report_data[k].Status = "PROCESSED"})
        /\ summary.no_files_count =
               Cardinality({k \in 1..Len(report_data) :
                               report_data[k].Status = "NO_FILES"})
        /\ summary.error_count = Cardinality(OtherRows)
        /\ summary.success_count + summary.no_files_count
               + summary.error_count = Len(report_data)

C26_Witness ==
    /\ pc = "summary_returned"
    /\ Len(report_data) = 3
    /\ report_data[1].Status = "NO_FILES"
    /\ report_data[2].Status = "PROCESSED"
    /\ report_data[3].Status = "ERROR"
    /\ summary = [success_count |-> 1, no_files_count |-> 1, error_count |-> 1]

OpenReturned == pc = "open_returned"

\* The call got as far as looking for the link and found it.
LinkFound == open_event.raised_at # "table" /\ open_event.links > 0

\* The record was never opened: the menu, its open option or the page of the
\* record never appeared.
NeverOpened ==
    \/ ~open_event.mid
    \/ ~open_event.option
    \/ (~open_event.title /\ ~open_event.tabs)

\* C27: open_contract returns NOT_FOUND only when no row matches the
\* identifier, and returns ERROR whenever a link to the matching record
\* exists but the record is never actually opened.
C27_NotFoundOnlyWhenNoRowMatches ==
    OpenReturned =>
        /\ open_status = "NOT_FOUND" => open_event.links = 0
        /\ (LinkFound /\ NeverOpened) => open_status = "ERROR"

\* C28: process_contract returns an outcome whatever the gateway steps do,
\* a raising step included: main leaves a contract only with the returned
\* outcome, whose row it appends, and no row produced by a gateway-step
\* failure carries the plain status ERROR of the loop's except clause.
C28_ProcessContractAlwaysReturns ==
    [][/\ (pc = "in_contract" /\ pc' # "in_contract") =>
            /\ cpc = "returned"
            /\ pc' = "loop"
            /\ report_data' = Append(report_data,
                                     [Contract_ID |-> ContractId,
                                      Status |-> result.Status,
                                      Duration |-> elapsed,
                                      File_Path |-> result.File_Path])
       /\ \A k \in 1..Len(report_data') : report_data'[k].Status # "ERROR"
       /\ (cpc = "return" /\ cpc' = "returned" /\ download_status = "RAISED") =>
            result'.Status = "ERROR_PROCESSED"
      ]_vars

\* The handler of download_contract_documents raised and the contract still
\* ended with a returned outcome.
C28_Witness ==
    /\ Returned
    /\ download_status = "RAISED"
    /\ download_event.handler_raised
    /\ result.Status = "ERROR_PROCESSED"
    /\ LastCall = "navigate_to_homepage"

\* The statuses process_contract can return.
ProcessContractStatuses ==
    {"PROCESSED", "NO_FILES", "NOT_FOUND", "ERROR_SEARCH_FAILED",
     "ERROR_OPEN_FAILED", "ERROR_DOCUMENTS_ACCESS_FAILED", "ERROR_PROCESSED"}

\* C29: the status of an outcome produced by process_contract is one of
\* PROCESSED, NO_FILES, NOT_FOUND, ERROR_SEARCH_FAILED, ERROR_OPEN_FAILED,
\* ERROR_DOCUMENTS_ACCESS_FAILED, ERROR_PROCESSED; the unprefixed failure
\* names and ERROR_DOWNLOAD_FAILED are never produced.
C29_OutcomeStatusesClosed ==
    /\ Returned => result.Status \in ProcessContractStatuses
    /\ \A k \in 1..Len(report_data) :
            report_data[k].Status \in ProcessContractStatuses

\* All seven statuses are produced; here two of them in one report.
C29_Witness ==
    /\ Len(report_data) = 2
    /\ report_data[1].Status = "ERROR_DOCUMENTS_ACCESS_FAILED"
    /\ report_data[2].Status = "ERROR_PROCESSED"

\* The resume marker the next run would read from the output root.
Marker == get_last_contract_id(TRUE, FALSE, folders)

ProcessedRows(rows) == {k \in 1..Len(rows) : rows[k].Status = "PROCESSED"}

LastProcessed(rows) ==
    rows[CHOOSE k \in ProcessedRows(rows) :
            \A j \in ProcessedRows(rows) : j <= k].Contract_ID

\* C30: an output folder is created only inside the download step, after a
\* download was received, and becomes non-empty only when the archive is
\* saved; the marker moves only in the step that saves the archive of a
\* contract (outcomes NO_FILES, NOT_FOUND and the error statuses never move
\* it), and after a run it is the identifier of the last contract of that
\* run whose status is PROCESSED.
C30_MarkerIsLastProcessed ==
    [][/\ folders' # folders =>
            /\ pc = "in_contract" /\ cpc = "download"
            /\ download_event'.ev \in {"saved", "save_failed"}
            /\ \A d \in Ids : folders'[d] # folders[d] => d = ContractId
            /\ folders'[ContractId].state = "full" => download_event'.ev = "saved"
       /\ Marker' # Marker =>
            /\ download_status' = "DOWNLOADED"
            /\ status' = "PROCESSED"
            /\ Marker' = ContractId
       /\ (pc = "finally" /\ pc' = "done" /\ ProcessedRows(report_data) # {}) =>
            Marker = LastProcessed(report_data)
      ]_vars

\* A run has ended and the next run of main() starts.
NextRunStarts == pc = "done" /\ run >= 1 /\ run' = run + 1

C33_BrowserClosedUnlessSaveFails ==
    /\ browser = "closed" => pc = "done"
    /\ (pc = "done" /\ browser # "none") =>
          \/ /\ browser = "closed"
             /\ SaveNeeded(report_data) => reports = 1
          \/ /\ browser = "open"
             /\ report_data # << >>
             /\ reports = 0
             /\ exit_code # 0

\* The batch phase ended by a re-raised error after one recorded outcome:
\* the report was written, the browser closed, and the exit code set.
C33_Witness ==
    /\ pc = "done"
    /\ browser = "closed"
    /\ Len(report_data) = 1
    /\ reports = 1
    /\ login_ok = "True"
    /\ i <= Len(contract_ids)
    /\ ~should_stop
    /\ exit_code # 0
====
